---- MODULE Spec2Model ----
(***************************************************************************)
(* A model of rust-core's blocking concurrent queues (core/concurrent.rs),  *)
(* of the thread pool built on them, of the owned thread handles and of    *)
(* the calls of the platform primitives (core/thread.rs).                  *)
(*                                                                         *)
(* Every thread is a small state machine: pc[t] is its position inside a   *)
(* queue operation (one label per statement of QueuePtr / BoundedQueuePtr  *)
(* push and pop), at[t] its position in the code that calls the queue      *)
(* (a client, the pool's owner, a pool worker).  The platform mutex is the *)
(* variable mutex (its owner), a condition variable is the set of threads  *)
(* blocked in pthread_cond_wait on it.                                     *)
(***************************************************************************)
EXTENDS Integers, Sequences, FiniteSets, TLC

\* ------------------------------------------------------------------ bounds
NClients == 2      \* client threads of a queue
MaxCalls == 3      \* push/pop calls the clients make in all
MaxItem == 2       \* items are 1..MaxItem
MaxCap == 2        \* capacities of the bounded queues are 1..MaxCap
MaxWorkers == 2    \* Pool::new(n) for n in 0..MaxWorkers
MaxTasks == 2      \* tasks submitted to a pool
MaxBatch == 3      \* calls each side makes in the producer/consumer specifications
MaxSpawn == 3      \* threads a scope spawns

\* ------------------------------------------------------- names of the code
Main == 0          \* the thread that owns the pool
NoThread == -1     \* owner of an unlocked mutex
None == 0          \* Option::None, the pool's sentinel; Some(id) is id >= 1
EBUSY == 16        \* the return code of pthread_mutex_trylock on a held mutex

Max(a, b) == IF a > b THEN a ELSE b
MaxThread == Max(Max(NClients, MaxWorkers), MaxSpawn)
Threads == 0..MaxThread
Clients == 1..NClients
Items == 1..MaxItem
Facades == {"Queue", "BlockingPriorityQueue", "BoundedQueue", "BoundedPriorityQueue"}

VARIABLES
  facade,      \* which of the four public queue types the cell belongs to
  maximum,     \* BoundedQueueBox.maximum (0 and unused for the unbounded cells)
  queue,       \* the sequential container of the cell
  mutex,       \* owner of the cell's mutex, or NoThread
  not_empty,   \* threads blocked in wait on the not_empty condition
  not_full,    \* threads blocked in wait on the not_full condition
  pc,          \* position of each thread inside a queue operation
  arg,         \* the item a thread is pushing
  ret,         \* the item a thread's last pop returned
  ops,         \* number of queue calls a client has made
  waited,      \* history: clients whose current or last queue call blocked in a wait
  at,          \* position of each thread in the code around the queue
  n_threads,   \* argument of Pool::new
  i,           \* loop counter of Pool::new and of Pool's drop
  pool,        \* Pool.pool: the handles of the spawned workers
  submitted,   \* number of tasks submitted so far (task ids are 1..submitted)
  joined,      \* worker threads that have been joined
  log,         \* ids of the tasks that have run to completion, in order
  pushLog,     \* history: items in the order generic_push stored them
  popLog,      \* history: <<thread, item>> in the order generic_pop removed them
  handle,      \* what has become of the Thread handle of each spawned thread
  joins,       \* number of pthread_join calls that returned for each thread
  flag,        \* threads whose routine has set its flag (a, b of test/thread.rs)
  fn,          \* the function of core/thread.rs a caller is in, or "none"
  step,        \* number of platform primitives fn has called so far
  aborted,     \* abort() was called: the process is gone
  survived,    \* primitives whose non-success return the current call went on after
  created,     \* number of threads pthread_create has started
  trylocked    \* what the last Mutex::trylock returned, or "none"

cellvars == <<facade, maximum>>
poolvars == <<at, n_threads, i, pool, submitted, joined, log>>
threadvars == <<handle, joins, flag, fn, step, aborted, survived, created, trylocked>>
vars == <<facade, maximum, queue, mutex, not_empty, not_full, pc, arg, ret, ops, waited,
          at, n_threads, i, pool, submitted, joined, log, pushLog, popLog,
          handle, joins, flag, fn, step, aborted, survived, created, trylocked>>

\* ---------------------------------------------------- sequential containers
IsPriority(f) == f \in {"BlockingPriorityQueue", "BoundedPriorityQueue"}
IsBounded(f) == f \in {"BoundedQueue", "BoundedPriorityQueue"}

\* Deque::push_back and Deque::pop_front
push_back(q, x) == Append(q, x)
pop_front(q) ==
  IF q = <<>> THEN [some |-> FALSE, item |-> None, rest |-> q]
  ELSE [some |-> TRUE, item |-> Head(q), rest |-> Tail(q)]

\* Deque::pop_back, used by a mutant only
pop_back(q) ==
  IF q = <<>> THEN [some |-> FALSE, item |-> None, rest |-> q]
  ELSE [some |-> TRUE, item |-> q[Len(q)], rest |-> SubSeq(q, 1, Len(q) - 1)]

\* PriorityQueue::push and PriorityQueue::pop: a max-heap, kept here as the
\* sequence of its elements in non-increasing order
RECURSIVE heap_insert(_, _)
heap_insert(q, x) ==
  IF q = <<>> THEN <<x>>
  ELSE IF x > Head(q) THEN <<x>> \o q
  ELSE <<Head(q)>> \o heap_insert(Tail(q), x)

heap_pop(q) ==
  IF q = <<>> THEN [some |-> FALSE, item |-> None, rest |-> q]
  ELSE [some |-> TRUE, item |-> Head(q), rest |-> Tail(q)]

\* impl GenericQueue for Deque (and two mutants: a push at the front, a pop
\* from the back)
Deque_generic_push_front(q, x) == <<x>> \o q
Deque_generic_push(q, x) == push_back(q, x)
Deque_generic_pop_lifo(q) == pop_back(q)
Deque_generic_pop(q) == pop_front(q)

\* impl GenericQueue for PriorityQueue (and two mutants: a pop of the least
\* element, a push that does not order)
PriorityQueue_generic_pop_min(q) == pop_back(q)
PriorityQueue_generic_push_unordered(q, x) == Append(q, x)
PriorityQueue_generic_push(q, x) == heap_insert(q, x)
PriorityQueue_generic_pop(q) == heap_pop(q)

generic_push(q, x) ==
  IF IsPriority(facade) THEN PriorityQueue_generic_push(q, x) ELSE Deque_generic_push(q, x)
generic_pop(q) ==
  IF IsPriority(facade) THEN PriorityQueue_generic_pop(q) ELSE Deque_generic_pop(q)
generic_len(q) == Len(q)

\* ------------------------------------------------------ mutex and condition
\* Mutex::lock: blocks until the mutex is free, then owns it (the mutant goes
\* on without the mutex when it is held, as an unchecked trylock would)
lock_unchecked(t) == mutex' = IF mutex = NoThread THEN t ELSE mutex
lock(t) == mutex = NoThread /\ mutex' = t

\* Mutex::unlock
unlock(t) == mutex' = NoThread

\* the label at which a thread woken from a wait goes on: it has to take the
\* mutex again before pthread_cond_wait returns
Woken(p) ==
  CASE p = "pop_wait" -> "pop_reacq"
    [] p = "bpop_wait" -> "bpop_reacq"
    [] p = "bpush_wait" -> "bpush_reacq"
    [] OTHER -> p

\* a mutant: the signal is left out
signal_not_empty_lost(t, next) ==
  /\ pc' = [pc EXCEPT ![t] = next]
  /\ UNCHANGED not_empty

\* box.not_empty.signal() by thread t, which then goes on at label next:
\* Cond::signal wakes one waiter when there is one
signal_not_empty(t, next) ==
  \/ /\ not_empty = {}
     /\ pc' = [pc EXCEPT ![t] = next]
     /\ UNCHANGED not_empty
  \/ \E w \in not_empty:
       /\ not_empty' = not_empty \ {w}
       /\ pc' = [pc EXCEPT ![t] = next, ![w] = Woken(pc[w])]

\* a mutant: the signal is left out
signal_not_full_lost(t, next) ==
  /\ pc' = [pc EXCEPT ![t] = next]
  /\ UNCHANGED not_full

\* box.not_full.signal()
signal_not_full(t, next) ==
  \/ /\ not_full = {}
     /\ pc' = [pc EXCEPT ![t] = next]
     /\ UNCHANGED not_full
  \/ \E w \in not_full:
       /\ not_full' = not_full \ {w}
       /\ pc' = [pc EXCEPT ![t] = next, ![w] = Woken(pc[w])]

\* history: client t blocks in a wait
Blocking(t) == IF at[t] = "client" THEN waited \cup {t} ELSE waited

\* pthread_cond_wait may return without a signal
SpuriousWakeup(t) ==
  /\ t \in not_empty \cup not_full
  /\ not_empty' = not_empty \ {t}
  /\ not_full' = not_full \ {t}
  /\ pc' = [pc EXCEPT ![t] = Woken(pc[t])]
  /\ UNCHANGED <<threadvars, cellvars, queue, mutex, arg, ret, ops, poolvars, waited, pushLog, popLog>>

\* -------------------------------------------------------- QueuePtr::push
QueuePtr_push_lock(t) ==
  /\ pc[t] = "push_lock"
  /\ lock(t)
  /\ pc' = [pc EXCEPT ![t] = "push_item"]
  /\ UNCHANGED <<threadvars, cellvars, queue, not_empty, not_full, arg, ret, ops, poolvars, waited,
                 pushLog, popLog>>

QueuePtr_push_item(t) ==
  /\ pc[t] = "push_item"
  /\ queue' = generic_push(queue, arg[t])
  /\ pushLog' = Append(pushLog, arg[t])
  /\ pc' = [pc EXCEPT ![t] = "push_unlock"]
  /\ UNCHANGED <<threadvars, cellvars, mutex, not_empty, not_full, arg, ret, ops, poolvars, waited, popLog>>

QueuePtr_push_unlock(t) ==
  /\ pc[t] = "push_unlock"
  /\ unlock(t)
  /\ pc' = [pc EXCEPT ![t] = "push_signal"]
  /\ UNCHANGED <<threadvars, cellvars, queue, not_empty, not_full, arg, ret, ops, poolvars, waited,
                 pushLog, popLog>>

QueuePtr_push_signal(t) ==
  /\ pc[t] = "push_signal"
  /\ signal_not_empty(t, "idle")
  /\ UNCHANGED <<threadvars, cellvars, queue, mutex, not_full, arg, ret, ops, poolvars, waited,
                 pushLog, popLog>>

\* --------------------------------------------------------- QueuePtr::pop
QueuePtr_pop_lock(t) ==
  /\ pc[t] = "pop_lock"
  /\ lock(t)
  /\ pc' = [pc EXCEPT ![t] = "pop_check"]
  /\ UNCHANGED <<threadvars, cellvars, queue, not_empty, not_full, arg, ret, ops, poolvars, waited,
                 pushLog, popLog>>

\* while box.queue.generic_len() == 0 { box.not_empty.wait_guard(&mut guard) }
QueuePtr_pop_check(t) ==
  /\ pc[t] = "pop_check"
  /\ IF generic_len(queue) = 0
     THEN /\ not_empty' = not_empty \cup {t}
          /\ unlock(t)
          /\ pc' = [pc EXCEPT ![t] = "pop_wait"]
          /\ waited' = Blocking(t)
     ELSE /\ pc' = [pc EXCEPT ![t] = "pop_item"]
          /\ UNCHANGED <<not_empty, mutex, waited>>
  /\ UNCHANGED <<threadvars, cellvars, queue, not_full, arg, ret, ops, poolvars, pushLog, popLog>>

\* a mutant: an if in place of the while, the length is not read again
QueuePtr_pop_reacq_no_loop(t) ==
  /\ pc[t] = "pop_reacq"
  /\ lock(t)
  /\ pc' = [pc EXCEPT ![t] = "pop_item"]
  /\ UNCHANGED <<threadvars, cellvars, queue, not_empty, not_full, arg, ret, ops, poolvars,
                 waited, pushLog, popLog>>

\* the wait returns: the woken thread owns the mutex again
QueuePtr_pop_reacq(t) ==
  /\ pc[t] = "pop_reacq"
  /\ lock(t)
  /\ pc' = [pc EXCEPT ![t] = "pop_check"]
  /\ UNCHANGED <<threadvars, cellvars, queue, not_empty, not_full, arg, ret, ops, poolvars, waited,
                 pushLog, popLog>>

\* box.queue.generic_pop().get(): get() of None fails
QueuePtr_pop_item(t) ==
  /\ pc[t] = "pop_item"
  /\ LET r == generic_pop(queue) IN
       IF r.some
       THEN /\ queue' = r.rest
            /\ ret' = [ret EXCEPT ![t] = r.item]
            /\ popLog' = Append(popLog, <<t, r.item>>)
            /\ pc' = [pc EXCEPT ![t] = "pop_unguard"]
       ELSE /\ pc' = [pc EXCEPT ![t] = "failed"]
            /\ UNCHANGED <<queue, ret, popLog>>
  /\ UNCHANGED <<threadvars, cellvars, mutex, not_empty, not_full, arg, ops, poolvars, waited, pushLog>>

\* a mutant: the guard is not dropped, pop returns with the mutex held
QueuePtr_pop_unguard_leak(t) ==
  /\ pc[t] = "pop_unguard"
  /\ pc' = [pc EXCEPT ![t] = "idle"]
  /\ UNCHANGED <<threadvars, cellvars, queue, mutex, not_empty, not_full, arg, ret, ops,
                 poolvars, waited, pushLog, popLog>>

\* the LockGuard goes out of scope: Drop for LockGuard unlocks
QueuePtr_pop_unguard(t) ==
  /\ pc[t] = "pop_unguard"
  /\ unlock(t)
  /\ pc' = [pc EXCEPT ![t] = "idle"]
  /\ UNCHANGED <<threadvars, cellvars, queue, not_empty, not_full, arg, ret, ops, poolvars, waited,
                 pushLog, popLog>>

\* -------------------------------------------------- BoundedQueuePtr::push
BoundedQueuePtr_push_lock(t) ==
  /\ pc[t] = "bpush_lock"
  /\ lock(t)
  /\ pc' = [pc EXCEPT ![t] = "bpush_check"]
  /\ UNCHANGED <<threadvars, cellvars, queue, not_empty, not_full, arg, ret, ops, poolvars, waited,
                 pushLog, popLog>>

\* the condition of push's wait loop (the mutant compares with > )
push_must_wait_off_by_one == generic_len(queue) > maximum
push_must_wait == generic_len(queue) = maximum

\* while box.deque.generic_len() == box.maximum { box.not_full.wait(&mut box.mutex) }
BoundedQueuePtr_push_check(t) ==
  /\ pc[t] = "bpush_check"
  /\ IF push_must_wait
     THEN /\ not_full' = not_full \cup {t}
          /\ unlock(t)
          /\ pc' = [pc EXCEPT ![t] = "bpush_wait"]
          /\ waited' = Blocking(t)
     ELSE /\ pc' = [pc EXCEPT ![t] = "bpush_item"]
          /\ UNCHANGED <<not_full, mutex, waited>>
  /\ UNCHANGED <<threadvars, cellvars, queue, not_empty, arg, ret, ops, poolvars, pushLog, popLog>>

BoundedQueuePtr_push_reacq(t) ==
  /\ pc[t] = "bpush_reacq"
  /\ lock(t)
  /\ pc' = [pc EXCEPT ![t] = "bpush_check"]
  /\ UNCHANGED <<threadvars, cellvars, queue, not_empty, not_full, arg, ret, ops, poolvars, waited,
                 pushLog, popLog>>

BoundedQueuePtr_push_item(t) ==
  /\ pc[t] = "bpush_item"
  /\ queue' = generic_push(queue, arg[t])
  /\ pushLog' = Append(pushLog, arg[t])
  /\ pc' = [pc EXCEPT ![t] = "bpush_unlock"]
  /\ UNCHANGED <<threadvars, cellvars, mutex, not_empty, not_full, arg, ret, ops, poolvars, waited, popLog>>

BoundedQueuePtr_push_unlock(t) ==
  /\ pc[t] = "bpush_unlock"
  /\ unlock(t)
  /\ pc' = [pc EXCEPT ![t] = "bpush_signal"]
  /\ UNCHANGED <<threadvars, cellvars, queue, not_empty, not_full, arg, ret, ops, poolvars, waited,
                 pushLog, popLog>>

BoundedQueuePtr_push_signal(t) ==
  /\ pc[t] = "bpush_signal"
  /\ signal_not_empty(t, "idle")
  /\ UNCHANGED <<threadvars, cellvars, queue, mutex, not_full, arg, ret, ops, poolvars, waited,
                 pushLog, popLog>>

\* --------------------------------------------------- BoundedQueuePtr::pop
BoundedQueuePtr_pop_lock(t) ==
  /\ pc[t] = "bpop_lock"
  /\ lock(t)
  /\ pc' = [pc EXCEPT ![t] = "bpop_check"]
  /\ UNCHANGED <<threadvars, cellvars, queue, not_empty, not_full, arg, ret, ops, poolvars, waited,
                 pushLog, popLog>>

\* while box.deque.generic_len() == 0 { box.not_empty.wait(&mut box.mutex) }
BoundedQueuePtr_pop_check(t) ==
  /\ pc[t] = "bpop_check"
  /\ IF generic_len(queue) = 0
     THEN /\ not_empty' = not_empty \cup {t}
          /\ unlock(t)
          /\ pc' = [pc EXCEPT ![t] = "bpop_wait"]
          /\ waited' = Blocking(t)
     ELSE /\ pc' = [pc EXCEPT ![t] = "bpop_item"]
          /\ UNCHANGED <<not_empty, mutex, waited>>
  /\ UNCHANGED <<threadvars, cellvars, queue, not_full, arg, ret, ops, poolvars, pushLog, popLog>>

BoundedQueuePtr_pop_reacq(t) ==
  /\ pc[t] = "bpop_reacq"
  /\ lock(t)
  /\ pc' = [pc EXCEPT ![t] = "bpop_check"]
  /\ UNCHANGED <<threadvars, cellvars, queue, not_empty, not_full, arg, ret, ops, poolvars, waited,
                 pushLog, popLog>>

\* let item = box.deque.generic_pop().get()
BoundedQueuePtr_pop_item(t) ==
  /\ pc[t] = "bpop_item"
  /\ LET r == generic_pop(queue) IN
       IF r.some
       THEN /\ queue' = r.rest
            /\ ret' = [ret EXCEPT ![t] = r.item]
            /\ popLog' = Append(popLog, <<t, r.item>>)
            /\ pc' = [pc EXCEPT ![t] = "bpop_unlock"]
       ELSE /\ pc' = [pc EXCEPT ![t] = "failed"]
            /\ UNCHANGED <<queue, ret, popLog>>
  /\ UNCHANGED <<threadvars, cellvars, mutex, not_empty, not_full, arg, ops, poolvars, waited, pushLog>>

BoundedQueuePtr_pop_unlock(t) ==
  /\ pc[t] = "bpop_unlock"
  /\ unlock(t)
  /\ pc' = [pc EXCEPT ![t] = "bpop_signal"]
  /\ UNCHANGED <<threadvars, cellvars, queue, not_empty, not_full, arg, ret, ops, poolvars, waited,
                 pushLog, popLog>>

BoundedQueuePtr_pop_signal(t) ==
  /\ pc[t] = "bpop_signal"
  /\ signal_not_full(t, "idle")
  /\ UNCHANGED <<threadvars, cellvars, queue, mutex, not_empty, arg, ret, ops, poolvars, waited,
                 pushLog, popLog>>

\* ------------------------------------------------ the four public facades
\* Queue::push, BlockingPriorityQueue::push, BoundedQueue::push,
\* BoundedPriorityQueue::push: self.ptr.push(item)
push(t, item) ==
  /\ pc[t] = "idle"
  /\ pc' = [pc EXCEPT ![t] = IF IsBounded(facade) THEN "bpush_lock" ELSE "push_lock"]
  /\ arg' = [arg EXCEPT ![t] = item]
  /\ waited' = waited \ {t}

\* Queue::pop, BlockingPriorityQueue::pop, BoundedQueue::pop,
\* BoundedPriorityQueue::pop: self.ptr.pop()
pop(t) ==
  /\ pc[t] = "idle"
  /\ pc' = [pc EXCEPT ![t] = IF IsBounded(facade) THEN "bpop_lock" ELSE "pop_lock"]
  /\ waited' = waited \ {t}
  /\ UNCHANGED arg

\* one step of thread t inside a queue operation
QueueStep(t) ==
  \/ QueuePtr_push_lock(t)
  \/ QueuePtr_push_item(t)
  \/ QueuePtr_push_unlock(t)
  \/ QueuePtr_push_signal(t)
  \/ QueuePtr_pop_lock(t)
  \/ QueuePtr_pop_check(t)
  \/ QueuePtr_pop_reacq(t)
  \/ QueuePtr_pop_item(t)
  \/ QueuePtr_pop_unguard(t)

BoundedQueueStep(t) ==
  \/ BoundedQueuePtr_push_lock(t)
  \/ BoundedQueuePtr_push_check(t)
  \/ BoundedQueuePtr_push_reacq(t)
  \/ BoundedQueuePtr_push_item(t)
  \/ BoundedQueuePtr_push_unlock(t)
  \/ BoundedQueuePtr_push_signal(t)
  \/ BoundedQueuePtr_pop_lock(t)
  \/ BoundedQueuePtr_pop_check(t)
  \/ BoundedQueuePtr_pop_reacq(t)
  \/ BoundedQueuePtr_pop_item(t)
  \/ BoundedQueuePtr_pop_unlock(t)
  \/ BoundedQueuePtr_pop_signal(t)

\* ------------------------------------------------------------- clients
\* the number of calls the clients have made
RECURSIVE SumOps(_)
SumOps(t) == IF t = 0 THEN 0 ELSE ops[t] + SumOps(t - 1)
Calls == SumOps(NClients)

\* a client thread calls push on its clone of the queue
ClientPush(t, item) ==
  /\ Calls < MaxCalls
  /\ push(t, item)
  /\ ops' = [ops EXCEPT ![t] = @ + 1]
  /\ UNCHANGED <<threadvars, cellvars, queue, mutex, not_empty, not_full, ret, poolvars,
                 pushLog, popLog>>

\* a client thread calls pop on its clone of the queue
ClientPop(t) ==
  /\ Calls < MaxCalls
  /\ pop(t)
  /\ ops' = [ops EXCEPT ![t] = @ + 1]
  /\ UNCHANGED <<threadvars, cellvars, queue, mutex, not_empty, not_full, ret, poolvars,
                 pushLog, popLog>>

\* no thread has been spawned and no function of core/thread.rs is being called
NoThreadCalls ==
  /\ handle = [t \in Threads |-> "none"]
  /\ joins = [t \in Threads |-> 0]
  /\ flag = {}
  /\ fn = "none"
  /\ step = 0
  /\ aborted = FALSE
  /\ survived = {}
  /\ created = 0
  /\ trylocked = "none"

\* QueuePtr::new / BoundedQueuePtr::new: an empty container, a fresh mutex and
\* fresh conditions; no thread has been started
InitCell(facades, capacities) ==
  /\ facade \in facades
  /\ maximum \in (IF IsBounded(facade) THEN capacities ELSE {0})
  /\ queue = <<>>
  /\ mutex = NoThread
  /\ not_empty = {}
  /\ not_full = {}
  /\ pc = [t \in Threads |-> "idle"]
  /\ arg = [t \in Threads |-> None]
  /\ ret = [t \in Threads |-> None]
  /\ ops = [t \in Threads |-> 0]
  /\ waited = {}
  /\ pushLog = <<>>
  /\ popLog = <<>>
  /\ NoThreadCalls

NoPool ==
  /\ at = [t \in Threads |-> "client"]
  /\ n_threads = 0
  /\ i = 0
  /\ pool = <<>>
  /\ submitted = 0
  /\ joined = {}
  /\ log = <<>>

\* ---------------------------------------------------------------- Spec:
\* any of the four queues, shared by NClients threads that push and pop
Init == InitCell(Facades, 1..MaxCap) /\ NoPool

Next ==
  \/ \E t \in Clients, item \in Items: ClientPush(t, item)
  \/ \E t \in Clients: ClientPop(t)
  \/ \E t \in Clients: QueueStep(t)
  \/ \E t \in Clients: BoundedQueueStep(t)
  \/ \E t \in Clients: SpuriousWakeup(t)

Spec == Init /\ [][Next]_vars

\* ------------------------------------------------- one consumer, one producer
Producer == CHOOSE t \in Clients: \A u \in Clients: t <= u
Consumer == CHOOSE t \in Clients: \A u \in Clients: t >= u

\* the scheduler runs every thread that can take a step, and a thread that
\* asks for the mutex gets it when it is free again and again; a client is
\* free never to call the queue again, a wait is free never to wake spuriously
Fairness == \A t \in Clients: SF_vars(QueueStep(t) \/ BoundedQueueStep(t))

\* FairOneConsumer: one thread pops, every other client pushes
NextOneConsumer ==
  \/ \E t \in Clients \ {Consumer}, item \in Items: ClientPush(t, item)
  \/ ClientPop(Consumer)
  \/ \E t \in Clients: QueueStep(t)
  \/ \E t \in Clients: BoundedQueueStep(t)
  \/ \E t \in Clients: SpuriousWakeup(t)

FairOneConsumer == Init /\ [][NextOneConsumer]_vars /\ Fairness

\* FairOneProducer: one thread pushes on a bounded queue, every other client pops
InitBounded == InitCell({f \in Facades: IsBounded(f)}, 1..MaxCap) /\ NoPool

NextOneProducer ==
  \/ \E item \in Items: ClientPush(Producer, item)
  \/ \E t \in Clients \ {Producer}: ClientPop(t)
  \/ \E t \in Clients: BoundedQueueStep(t)
  \/ \E t \in Clients: SpuriousWakeup(t)

FairOneProducer == InitBounded /\ [][NextOneProducer]_vars /\ Fairness

\* ------------------------------------------------------------------ Pool
Workers == 1..MaxWorkers

\* Pool::new: the queue exists, the loop that spawns the workers is about to run
InitPool ==
  /\ InitCell({"Queue"}, {0})
  /\ at = [t \in Threads |-> IF t = Main THEN "new" ELSE "unborn"]
  /\ n_threads \in 0..MaxWorkers
  /\ i = 0
  /\ pool = <<>>
  /\ submitted = 0
  /\ joined = {}
  /\ log = <<>>

\* while i < n_threads { let send_queue = queue.clone(); pool.push(spawn(..)); i += 1 }
Pool_new_spawn ==
  /\ at[Main] = "new"
  /\ i < n_threads
  /\ at' = [at EXCEPT ![i + 1] = "loop"]
  /\ pool' = Append(pool, i + 1)
  /\ i' = i + 1
  /\ UNCHANGED <<threadvars, cellvars, queue, mutex, not_empty, not_full, pc, arg, ret, ops, waited,
                 n_threads, submitted, joined, log, pushLog, popLog>>

\* Pool { queue: queue, pool: pool }
Pool_new_return ==
  /\ at[Main] = "new"
  /\ ~(i < n_threads)
  /\ at' = [at EXCEPT ![Main] = "live"]
  /\ UNCHANGED <<threadvars, cellvars, queue, mutex, not_empty, not_full, pc, arg, ret, ops, waited,
                 n_threads, i, pool, submitted, joined, log, pushLog, popLog>>

\* Pool::submit: self.queue.push(Some(task)); the tasks get the ids 1, 2, ...
Pool_submit ==
  /\ at[Main] = "live"
  /\ submitted < MaxTasks
  /\ push(Main, submitted + 1)
  /\ submitted' = submitted + 1
  /\ UNCHANGED <<threadvars, cellvars, queue, mutex, not_empty, not_full, ret, ops,
                 at, n_threads, i, pool, joined, log, pushLog, popLog>>

\* the pool is dropped: Drop for Pool starts, let mut i = 0
Pool_drop ==
  /\ at[Main] = "live"
  /\ pc[Main] = "idle"
  /\ at' = [at EXCEPT ![Main] = "drop"]
  /\ i' = 0
  /\ UNCHANGED <<threadvars, cellvars, queue, mutex, not_empty, not_full, pc, arg, ret, ops, waited,
                 n_threads, pool, submitted, joined, log, pushLog, popLog>>

\* the condition of the loop of Drop for Pool (the mutant stops one short)
drop_more_short(ix) == ix + 1 < Len(pool)
drop_more(ix) == ix < Len(pool)

\* while i < self.pool.len() { self.queue.push(None);
Pool_drop_push ==
  /\ at[Main] = "drop"
  /\ drop_more(i)
  /\ push(Main, None)
  /\ at' = [at EXCEPT ![Main] = "drop_pushed"]
  /\ UNCHANGED <<threadvars, cellvars, queue, mutex, not_empty, not_full, ret, ops,
                 n_threads, i, pool, submitted, joined, log, pushLog, popLog>>

\* i += 1 }
Pool_drop_next ==
  /\ at[Main] = "drop_pushed"
  /\ pc[Main] = "idle"
  /\ i' = i + 1
  /\ at' = [at EXCEPT ![Main] = "drop"]
  /\ UNCHANGED <<threadvars, cellvars, queue, mutex, not_empty, not_full, pc, arg, ret, ops, waited,
                 n_threads, pool, submitted, joined, log, pushLog, popLog>>

\* drop returns and the fields of the pool are dropped, the worker handles
\* among them
Pool_drop_fields ==
  /\ at[Main] = "drop"
  /\ ~drop_more(i)
  /\ at' = [at EXCEPT ![Main] = "join"]
  /\ UNCHANGED <<threadvars, cellvars, queue, mutex, not_empty, not_full, pc, arg, ret, ops, waited,
                 n_threads, i, pool, submitted, joined, log, pushLog, popLog>>

\* pthread_join(self.thread, ..) returns when the thread has terminated (the
\* mutant does not wait for it)
join_no_wait(w) == TRUE
join(w) == at[w] = "exited"

\* Drop for Thread, for the next handle of the vector
Thread_drop ==
  /\ at[Main] = "join"
  /\ Cardinality(joined) < Len(pool)
  /\ LET w == pool[Cardinality(joined) + 1] IN
       /\ join(w)
       /\ joined' = joined \cup {w}
  /\ UNCHANGED <<threadvars, cellvars, queue, mutex, not_empty, not_full, pc, arg, ret, ops, waited,
                 at, n_threads, i, pool, submitted, log, pushLog, popLog>>

\* every handle is dropped: the drop of the pool is over
Pool_dropped ==
  /\ at[Main] = "join"
  /\ Cardinality(joined) = Len(pool)
  /\ at' = [at EXCEPT ![Main] = "dropped"]
  /\ UNCHANGED <<threadvars, cellvars, queue, mutex, not_empty, not_full, pc, arg, ret, ops, waited,
                 n_threads, i, pool, submitted, joined, log, pushLog, popLog>>

\* the worker's loop: match queue.pop() {
Worker_pop(w) ==
  /\ at[w] = "loop"
  /\ pop(w)
  /\ at' = [at EXCEPT ![w] = "popping"]
  /\ UNCHANGED <<threadvars, cellvars, queue, mutex, not_empty, not_full, ret, ops,
                 n_threads, i, pool, submitted, joined, log, pushLog, popLog>>

\* None => break (the mutant breaks on Some)
is_break_on_some(item) == item # None
is_break(item) == item = None

\* Some(function) => function(), None => break }: pop has returned
Worker_match(w) ==
  /\ at[w] = "popping"
  /\ pc[w] = "idle"
  /\ at' = [at EXCEPT ![w] = IF is_break(ret[w]) THEN "exited" ELSE "run"]
  /\ UNCHANGED <<threadvars, cellvars, queue, mutex, not_empty, not_full, pc, arg, ret, ops, waited,
                 n_threads, i, pool, submitted, joined, log, pushLog, popLog>>

\* function() runs to its end: the task records its id
Worker_task(w) ==
  /\ at[w] = "run"
  /\ log' = Append(log, ret[w])
  /\ at' = [at EXCEPT ![w] = "loop"]
  /\ UNCHANGED <<threadvars, cellvars, queue, mutex, not_empty, not_full, pc, arg, ret, ops, waited,
                 n_threads, i, pool, submitted, joined, pushLog, popLog>>

MainStep ==
  \/ Pool_new_spawn
  \/ Pool_new_return
  \/ Pool_drop_push
  \/ Pool_drop_next
  \/ Pool_drop_fields
  \/ Thread_drop
  \/ Pool_dropped

WorkerStep(w) ==
  \/ Worker_pop(w)
  \/ Worker_match(w)
  \/ Worker_task(w)

NextPool ==
  \/ MainStep
  \/ Pool_submit
  \/ Pool_drop
  \/ \E w \in Workers: WorkerStep(w)
  \/ \E t \in Threads: QueueStep(t)
  \/ \E t \in Threads: SpuriousWakeup(t)

\* PoolSpec: a pool of 0..MaxWorkers workers, its owner submits up to MaxTasks
\* tasks and then drops it
PoolSpec == InitPool /\ [][NextPool]_vars

\* every task ends, every thread that can run does, and a thread that asks for
\* the mutex gets it when it is free again and again; the owner is free never
\* to submit a task and never to drop the pool
PoolFairness ==
  /\ SF_vars(MainStep \/ QueueStep(Main))
  /\ \A w \in Workers: SF_vars(WorkerStep(w) \/ QueueStep(w))

FairPoolSpec == InitPool /\ [][NextPool]_vars /\ PoolFairness

\* ===================================================================== claims

\* the statements of push and pop between the acquisition of the mutex and
\* its release: every generic_len, generic_push and generic_pop is among them
InCritical(t) ==
  pc[t] \in {"push_item", "push_unlock", "pop_check", "pop_item", "pop_unguard",
             "bpush_check", "bpush_item", "bpush_unlock",
             "bpop_check", "bpop_item", "bpop_unlock"}

\* C1: a thread that is at a statement between lock and unlock of push or pop
\* (every read of the length, the re-check after a wait included, and every
\* push or pop of the container) owns the mutex, and no two threads are
\* between lock and unlock at the same time.
C1_MutualExclusion ==
  /\ \A t \in Threads: InCritical(t) => mutex = t
  /\ Cardinality({t \in Threads: InCritical(t)}) <= 1

\* a thread re-checks the length after its wait returned, while another thread
\* that asked for the mutex is kept out
C1_Witness ==
  \E t, u \in Clients:
    /\ t # u
    /\ pc[t] \in {"pop_check", "bpop_check", "bpush_check"}
    /\ t \in waited
    /\ mutex = t
    /\ pc[u] \in {"push_lock", "pop_lock", "bpush_lock", "bpop_lock",
                  "pop_reacq", "bpop_reacq", "bpush_reacq"}

\* C2: the container of a bounded queue never holds more than maximum items
\* (so no push stored its item when the length was maximum).
C2_BoundedLength ==
  IsBounded(facade) => (0 <= generic_len(queue) /\ generic_len(queue) <= maximum)

\* a full bounded queue with a push blocked on not_full
C2_Witness ==
  /\ IsBounded(facade)
  /\ generic_len(queue) = maximum
  /\ \E t \in Clients: pc[t] = "bpush_wait" /\ t \in not_full

\* thread t is blocked inside pop: in the wait, or woken and after the mutex
PopBlocked(t) == pc[t] \in {"pop_wait", "pop_reacq", "bpop_wait", "bpop_reacq"}
\* thread t is blocked inside a bounded push
PushBlocked(t) == pc[t] \in {"bpush_wait", "bpush_reacq"}

\* the pops of thread t, in order
RECURSIVE PopsOf(_, _)
PopsOf(l, t) ==
  IF l = <<>> THEN <<>>
  ELSE (IF Head(l)[1] = t THEN <<Head(l)[2]>> ELSE <<>>) \o PopsOf(Tail(l), t)

\* the consumer's pop has returned item v (or, from a priority queue, an item
\* greater than v that was pushed in the meantime)
PopReturned(v) ==
  /\ pc[Consumer] = "idle"
  /\ Len(PopsOf(popLog, Consumer)) = ops[Consumer]
  /\ \/ ret[Consumer] = v
     \/ IsPriority(facade) /\ ret[Consumer] > v

\* C3: when the only consumer is blocked in pop and a push has stored item v
\* in the empty container, the pop eventually returns v.
C3_BlockedPopCompletes ==
  \A v \in Items: (PopBlocked(Consumer) /\ queue = <<v>>) ~> PopReturned(v)

\* the consumer blocked, exactly one push stored an item, and the pop returned it
C3_Witness ==
  /\ pc[Consumer] = "idle"
  /\ Consumer \in waited
  /\ Len(pushLog) = 1
  /\ popLog = <<<<Consumer, pushLog[1]>>>>
  /\ ret[Consumer] = pushLog[1]

\* the producer's push of item v has stored v and returned
PushReturned(v) ==
  /\ pc[Producer] = "idle"
  /\ Len(pushLog) = ops[Producer]
  /\ Len(pushLog) > 0
  /\ pushLog[Len(pushLog)] = v

\* C4: when the only producer is blocked in push of item v on a bounded queue
\* and a pop has made room, the push eventually stores v and returns.
C4_BlockedPushCompletes ==
  \A v \in Items:
    (PushBlocked(Producer) /\ arg[Producer] = v /\ generic_len(queue) < maximum)
      ~> PushReturned(v)

\* the producer blocked on the full queue, exactly one pop made room, and the
\* push stored its item and returned
C4_Witness ==
  /\ pc[Producer] = "idle"
  /\ Producer \in waited
  /\ Len(popLog) = 1
  /\ Len(pushLog) = maximum + 1
  /\ pushLog[maximum + 1] = arg[Producer]

\* ---------------------------------------------------------- claims on Pool
Range(f) == {f[k]: k \in DOMAIN f}
TaskIds == 1..submitted
\* the items in the order the workers dequeued them
Dequeued == [k \in DOMAIN popLog |-> popLog[k][2]]
\* worker u has dequeued task id and has not finished running it
Holds(u, id) ==
  /\ ret[u] = id
  /\ \/ at[u] = "run"
     \/ at[u] = "popping" /\ pc[u] \in {"pop_unguard", "idle"}

\* C5 as stated: no worker has left its loop while a submitted task has not
\* finished running.
C5_Original_AllRunBeforeAnyExit ==
  \A w \in Workers: at[w] = "exited" => TaskIds \subseteq Range(log)

\* C5 as amended: when a worker has left its loop, every submitted task has
\* been dequeued: it has finished, or another worker has dequeued it and is
\* still running it; and when the drop of a pool with a worker has returned,
\* every submitted task has finished.
C5_DrainBeforeExit ==
  /\ \A w \in Workers: at[w] = "exited" =>
       \A id \in TaskIds:
         id \in Range(log) \/ \E u \in Workers \ {w}: Holds(u, id)
  /\ (at[Main] = "dropped" /\ n_threads >= 1) => TaskIds \subseteq Range(log)

\* a worker has left its loop while another worker still runs a task
C5_Witness ==
  \E w, u \in Workers:
    /\ at[w] = "exited"
    /\ at[u] = "run"
    /\ ret[u] \in TaskIds
    /\ ret[u] \notin Range(log)

\* C6: when the drop of a pool with at least one worker has returned, the log
\* of the finished tasks is a permutation of the ids of the submitted tasks.
C6_EveryTaskOnce ==
  (at[Main] = "dropped" /\ n_threads >= 1) =>
    /\ Len(log) = submitted
    /\ Range(log) = TaskIds

\* the drop has returned after two tasks finished, the second one first
C6_Witness ==
  /\ at[Main] = "dropped"
  /\ submitted >= 2
  /\ Len(log) = submitted
  /\ log[1] # 1

\* C7: the sentinels follow every task in the queue, and a worker dequeues a
\* sentinel only after every submitted task has been dequeued.
C7_SentinelsLast ==
  /\ \A a, b \in DOMAIN pushLog: (a < b /\ pushLog[a] = None) => pushLog[b] = None
  /\ \A k \in DOMAIN popLog:
       Dequeued[k] = None =>
         \A id \in TaskIds: \E j \in 1..(k - 1): Dequeued[j] = id

\* a sentinel has been dequeued after two tasks, by two workers
C7_Witness ==
  /\ submitted >= 2
  /\ n_threads >= 2
  /\ None \in Range(Dequeued)
  /\ \E a, b \in DOMAIN popLog: popLog[a][1] # popLog[b][1]

\* no worker is blocked in pop
NoWorkerInPop == \A w \in Workers: pc[w] = "idle" /\ w \notin not_empty

\* C8: the drop of a pool pushes n sentinels and, once begun, returns; when it
\* has returned every worker has terminated and has been joined.
C8_DropReturns ==
  /\ [](at[Main] = "dropped" =>
         /\ Len(SelectSeq(pushLog, LAMBDA x: x = None)) = n_threads
         /\ Len(pool) = n_threads
         /\ joined = Range(pool)
         /\ \A w \in Range(pool): at[w] = "exited"
         /\ NoWorkerInPop)
  /\ (at[Main] \in {"drop", "drop_pushed", "join"}) ~> (at[Main] = "dropped")

\* the drop of a pool of at least two workers that ran a task has returned
C8_Witness ==
  /\ at[Main] = "dropped"
  /\ n_threads >= 2
  /\ submitted >= 1
  /\ Len(pushLog) = submitted + n_threads
  /\ joined = Range(pool)

\* C9: the workers dequeue the tasks in the order of their submission.
C9_FifoDispatch ==
  \A a, b \in DOMAIN popLog:
    (a < b /\ Dequeued[a] # None /\ Dequeued[b] # None) => Dequeued[a] < Dequeued[b]

\* two workers dequeued tasks 1 and 2 in this order, and task 2 finished first
C9_Witness ==
  /\ Len(popLog) >= 2
  /\ Dequeued[1] = 1
  /\ Dequeued[2] = 2
  /\ popLog[1][1] # popLog[2][1]
  /\ Len(log) >= 1
  /\ log[1] = 2

\* the worker threads that exist
Alive == {w \in Workers: at[w] \notin {"unborn", "exited"}}

\* C10: while the pool is live, n workers exist; a worker has terminated only
\* after it dequeued a None, which is the last item it dequeued and the only
\* None it dequeued, and only after the drop of the pool pushed a sentinel; a
\* worker that dequeued a None is on its way out of the loop.
C10_WorkerLifecycle ==
  /\ at[Main] = "live" => (Cardinality(Alive) = n_threads /\ Len(pool) = n_threads)
  /\ \A w \in Workers:
       LET mine == PopsOf(popLog, w) IN
         /\ at[w] = "exited" =>
              /\ mine # <<>>
              /\ mine[Len(mine)] = None
              /\ None \in Range(pushLog)
              /\ at[Main] \in {"drop", "drop_pushed", "join", "dropped"}
         /\ \A k \in DOMAIN mine: mine[k] = None =>
              /\ k = Len(mine)
              /\ \/ at[w] = "exited"
                 \/ at[w] = "popping" /\ pc[w] \in {"pop_unguard", "idle"}

\* a worker ran a task, dequeued a None and terminated while another worker
\* is still in its loop
C10_Witness ==
  \E w, u \in Workers:
    /\ at[w] = "exited"
    /\ Len(PopsOf(popLog, w)) >= 2
    /\ u \in Alive

\* ------------------------------------ one producer, one consumer, FIFO queues
\* FifoSpec: a Queue or a BoundedQueue shared by one thread that pushes up to
\* MaxBatch items and one thread that pops up to MaxBatch times
InitFifo == InitCell({f \in Facades: ~IsPriority(f)}, 1..MaxCap) /\ NoPool

\* the producer calls push on its clone of the queue
ProducerPush(item) ==
  /\ ops[Producer] < MaxBatch
  /\ push(Producer, item)
  /\ ops' = [ops EXCEPT ![Producer] = @ + 1]
  /\ UNCHANGED <<threadvars, cellvars, queue, mutex, not_empty, not_full, ret, poolvars,
                 pushLog, popLog>>

\* the consumer calls pop on its clone of the queue
ConsumerPop ==
  /\ ops[Consumer] < MaxBatch
  /\ pop(Consumer)
  /\ ops' = [ops EXCEPT ![Consumer] = @ + 1]
  /\ UNCHANGED <<threadvars, cellvars, queue, mutex, not_empty, not_full, ret, poolvars,
                 pushLog, popLog>>

NextFifo ==
  \/ \E item \in Items: ProducerPush(item)
  \/ ConsumerPop
  \/ \E t \in {Producer, Consumer}: QueueStep(t)
  \/ \E t \in {Producer, Consumer}: BoundedQueueStep(t)
  \/ \E t \in {Producer, Consumer}: SpuriousWakeup(t)

FifoSpec == InitFifo /\ [][NextFifo]_vars

\* thread t is inside push and has not stored its item yet
PushPending(t) ==
  pc[t] \in {"push_lock", "push_item",
             "bpush_lock", "bpush_check", "bpush_wait", "bpush_reacq", "bpush_item"}
\* thread t is inside pop and has not removed an item yet
PopPending(t) ==
  pc[t] \in {"pop_lock", "pop_check", "pop_wait", "pop_reacq", "pop_item",
             "bpop_lock", "bpop_check", "bpop_wait", "bpop_reacq", "bpop_item"}

InPop(t) ==
  pc[t] \in {"pop_lock", "pop_check", "pop_wait", "pop_reacq", "pop_item", "pop_unguard",
             "bpop_lock", "bpop_check", "bpop_wait", "bpop_reacq", "bpop_item",
             "bpop_unlock", "bpop_signal"}

\* no client has called pop so far
NoPopYet == Calls = Len(pushLog) + Cardinality({t \in Clients: PushPending(t)})

InitPriority == InitCell({f \in Facades: IsPriority(f)}, 1..MaxCap) /\ NoPool

\* a client pushes, as long as no pop has been called
BatchPush(t, item) ==
  /\ NoPopYet
  /\ Calls < MaxBatch
  /\ push(t, item)
  /\ ops' = [ops EXCEPT ![t] = @ + 1]
  /\ UNCHANGED <<threadvars, cellvars, queue, mutex, not_empty, not_full, ret, poolvars,
                 pushLog, popLog>>

\* the consumer pops, once every push has returned; a pop of the empty queue
\* blocks
BatchPop ==
  /\ \A u \in Clients: pc[u] = "idle" \/ InPop(u)
  /\ Calls < Len(pushLog) + MaxBatch
  /\ pop(Consumer)
  /\ ops' = [ops EXCEPT ![Consumer] = @ + 1]
  /\ UNCHANGED <<threadvars, cellvars, queue, mutex, not_empty, not_full, ret, poolvars,
                 pushLog, popLog>>

NextBatch ==
  \/ \E t \in Clients, item \in Items: BatchPush(t, item)
  \/ BatchPop
  \/ \E t \in Clients: QueueStep(t)
  \/ \E t \in Clients: BoundedQueueStep(t)
  \/ \E t \in Clients: SpuriousWakeup(t)

\* BatchSpec: the clients of a priority queue push up to MaxBatch items and,
\* when every push has returned, one of them pops up to MaxBatch times
BatchSpec == InitPriority /\ [][NextBatch]_vars

\* the number of occurrences of v in the sequence s
Count(s, v) == Len(SelectSeq(s, LAMBDA x: x = v))

Producers == 1..2
Receiver == Main

InitTwoProducers == InitCell({"BlockingPriorityQueue"}, {0}) /\ NoPool

\* a producer calls push on its clone of the queue
TwoProducersPush(t, item) ==
  /\ Calls < MaxBatch
  /\ push(t, item)
  /\ ops' = [ops EXCEPT ![t] = @ + 1]
  /\ UNCHANGED <<threadvars, cellvars, queue, mutex, not_empty, not_full, ret, poolvars,
                 pushLog, popLog>>

\* the consumer calls pop
ReceiverPop ==
  /\ ops[Receiver] < MaxBatch
  /\ pop(Receiver)
  /\ ops' = [ops EXCEPT ![Receiver] = @ + 1]
  /\ UNCHANGED <<threadvars, cellvars, queue, mutex, not_empty, not_full, ret, poolvars,
                 pushLog, popLog>>

NextTwoProducers ==
  \/ \E t \in Producers, item \in Items: TwoProducersPush(t, item)
  \/ ReceiverPop
  \/ \E t \in Producers \cup {Receiver}: QueueStep(t)
  \/ \E t \in Producers \cup {Receiver}: SpuriousWakeup(t)

\* TwoProducersSpec: a BlockingPriorityQueue, two threads push up to MaxBatch
\* items in all while a third pops up to MaxBatch times
TwoProducersSpec == InitTwoProducers /\ [][NextTwoProducers]_vars

\* C13 as stated: the values the consumer received are in non-increasing
\* order.
C13_Original_SortedOutput ==
  \A a, b \in DOMAIN popLog: a < b => Dequeued[a] >= Dequeued[b]

\* C13 as amended: every value the consumer receives is the greatest of the
\* values stored at the moment of its pop, and the values received together
\* with the values stored are the multiset of the values pushed.
C13_PopsGreatestStored ==
  /\ [](\A v \in Items: Count(Dequeued, v) + Count(queue, v) = Count(pushLog, v))
  /\ [][popLog' # popLog =>
          /\ popLog' = Append(popLog, <<Receiver, ret'[Receiver]>>)
          /\ \A k \in DOMAIN queue: ret'[Receiver] >= queue[k]
          /\ Count(queue', ret'[Receiver]) = Count(queue, ret'[Receiver]) - 1]_vars

\* each producer pushed one value, the lesser one before the consumer's first
\* pop and the greater one after it: the consumer received 1, then 2
C13_Witness ==
  /\ \A t \in Producers: ops[t] = 1
  /\ pushLog = <<1, 2>>
  /\ PopsOf(popLog, Receiver) = <<1, 2>>
  /\ pc[Receiver] = "idle"

\* ------------------------------------------------ one order of operations
\* thread t, owner of the mutex, pushes its item into the container
PushEffect(t) ==
  /\ PushPending(t)
  /\ pc'[t] \in {"push_unlock", "bpush_unlock"}
  /\ queue' = generic_push(queue, arg[t])
  /\ pushLog' = Append(pushLog, arg[t])
  /\ popLog' = popLog

\* thread t, owner of the mutex, takes the item the container's pop delivers
PopEffect(t) ==
  /\ PopPending(t)
  /\ pc'[t] \in {"pop_unguard", "bpop_unlock"}
  /\ generic_pop(queue).some
  /\ queue' = generic_pop(queue).rest
  /\ ret'[t] = generic_pop(queue).item
  /\ popLog' = Append(popLog, <<t, ret'[t]>>)
  /\ pushLog' = pushLog

\* C14: every call of push or pop takes effect exactly once, between its call
\* and its return, in a single step taken by the owner of the mutex; that
\* step is the push, or the pop, of the sequential container applied to the
\* contents the steps before it left, so the container goes through the
\* states of an atomic queue that runs the operations one after another in
\* the order in which they held the mutex; and the value a pop returns is the
\* value the container's pop delivered in that step.
C14_Linearizable ==
  /\ [](Len(pushLog) + Len(popLog) =
          Calls - Cardinality({t \in Clients: PushPending(t) \/ PopPending(t)}))
  /\ [](\A t \in Clients:
          LET mine == PopsOf(popLog, t) IN mine # <<>> => ret[t] = mine[Len(mine)])
  /\ [][(queue' # queue \/ pushLog' # pushLog \/ popLog' # popLog) =>
          \E t \in Clients:
            /\ mutex = t
            /\ mutex' = t
            /\ PushEffect(t) \/ PopEffect(t)]_vars

\* a pop that was called on the empty queue and blocked has returned an item
\* of a push called after it, and a second push has taken effect
C14_Witness ==
  \E t \in Clients:
    /\ t \in waited
    /\ pc[t] = "idle"
    /\ Len(PopsOf(popLog, t)) = 1
    /\ Len(pushLog) >= 2

\* ---------------------------------------------------------- Thread handles
\* the threads spawned so far are 1..Spawned
Spawned == Cardinality({t \in Threads: handle[t] # "none"})

\* a scope of the main thread (the block of test/thread.rs) about to spawn
InitThread ==
  /\ InitCell({"Queue"}, {0})
  /\ at = [t \in Threads |-> IF t = Main THEN "scope" ELSE "unborn"]
  /\ n_threads = 0
  /\ i = 0
  /\ pool = <<>>
  /\ submitted = 0
  /\ joined = {}
  /\ log = <<>>

\* let _a = spawn(foo): pthread_create starts the thread, the scope owns the
\* handle
spawn(t) ==
  /\ at[Main] = "scope"
  /\ t = Spawned + 1
  /\ at' = [at EXCEPT ![t] = "routine"]
  /\ handle' = [handle EXCEPT ![t] = "owned"]
  /\ created' = created + 1
  /\ UNCHANGED <<cellvars, queue, mutex, not_empty, not_full, pc, arg, ret, ops, waited,
                 n_threads, i, pool, submitted, joined, log, pushLog, popLog,
                 joins, flag, fn, step, aborted, survived, trylocked>>

\* shim runs start_routine: foo sets its flag
shim(t) ==
  /\ at[t] = "routine"
  /\ flag' = flag \cup {t}
  /\ at' = [at EXCEPT ![t] = "return"]
  /\ UNCHANGED <<cellvars, queue, mutex, not_empty, not_full, pc, arg, ret, ops, waited,
                 n_threads, i, pool, submitted, joined, log, pushLog, popLog,
                 handle, joins, fn, step, aborted, survived, created, trylocked>>

\* start_routine has returned: the thread terminates
shim_return(t) ==
  /\ at[t] = "return"
  /\ at' = [at EXCEPT ![t] = "exited"]
  /\ UNCHANGED <<threadvars, cellvars, queue, mutex, not_empty, not_full, pc, arg, ret, ops,
                 waited, n_threads, i, pool, submitted, joined, log, pushLog, popLog>>

\* forget(self): the destructor of the handle will not run (the mutant leaves
\* the handle armed)
forget_missing == "owned"
forget == "forgotten"

\* Thread::join(self): pthread_join returns when the thread has terminated,
\* then forget(self)
Thread_join(t) ==
  /\ at[Main] = "scope"
  /\ handle[t] = "owned"
  /\ join(t)
  /\ joins' = [joins EXCEPT ![t] = @ + 1]
  /\ handle' = [handle EXCEPT ![t] = forget]
  /\ UNCHANGED <<cellvars, queue, mutex, not_empty, not_full, pc, arg, ret, ops, waited,
                 poolvars, pushLog, popLog,
                 flag, fn, step, aborted, survived, created, trylocked>>

\* the end of the block: its locals are about to be dropped
scope_exit ==
  /\ at[Main] = "scope"
  /\ at' = [at EXCEPT ![Main] = "exit"]
  /\ UNCHANGED <<threadvars, cellvars, queue, mutex, not_empty, not_full, pc, arg, ret, ops,
                 waited, n_threads, i, pool, submitted, joined, log, pushLog, popLog>>

\* Drop for Thread, for the handle declared last among those the scope still
\* owns: pthread_join returns when the thread has terminated
Drop_for_Thread(t) ==
  /\ at[Main] = "exit"
  /\ handle[t] = "owned"
  /\ \A u \in Threads: handle[u] = "owned" => u <= t
  /\ join(t)
  /\ joins' = [joins EXCEPT ![t] = @ + 1]
  /\ handle' = [handle EXCEPT ![t] = "dropped"]
  /\ UNCHANGED <<cellvars, queue, mutex, not_empty, not_full, pc, arg, ret, ops, waited,
                 poolvars, pushLog, popLog,
                 flag, fn, step, aborted, survived, created, trylocked>>

\* every local is dropped: the block is left
scope_exited ==
  /\ at[Main] = "exit"
  /\ \A t \in Threads: handle[t] # "owned"
  /\ at' = [at EXCEPT ![Main] = "after"]
  /\ UNCHANGED <<threadvars, cellvars, queue, mutex, not_empty, not_full, pc, arg, ret, ops,
                 waited, n_threads, i, pool, submitted, joined, log, pushLog, popLog>>

NextThread ==
  \/ \E t \in 1..MaxSpawn: spawn(t)
  \/ \E t \in 1..MaxSpawn: shim(t)
  \/ \E t \in 1..MaxSpawn: shim_return(t)
  \/ \E t \in 1..MaxSpawn: Thread_join(t)
  \/ scope_exit
  \/ \E t \in 1..MaxSpawn: Drop_for_Thread(t)
  \/ scope_exited

\* ThreadSpec: a scope spawns up to MaxSpawn threads, joins some of them and
\* drops the handles of the others at its end
ThreadSpec == InitThread /\ [][NextThread]_vars

\* C15: a handle has been dropped only after its thread terminated, with the
\* flag its routine sets as its last step set; when the scope has exited,
\* the flag of every thread spawned in it is set, and the thread has
\* terminated.
C15_DropWaits ==
  /\ \A t \in Threads: handle[t] = "dropped" => (at[t] = "exited" /\ t \in flag)
  /\ at[Main] = "after" =>
       \A t \in Threads: handle[t] # "none" => (at[t] = "exited" /\ t \in flag)

\* the scope has exited after dropping two handles without an explicit join
C15_Witness ==
  /\ at[Main] = "after"
  /\ Cardinality({t \in Threads: handle[t] = "dropped"}) >= 2
  /\ \A t \in Threads: joins[t] = (IF handle[t] = "dropped" THEN 1 ELSE 0)

\* C16: no thread is joined twice; a thread has been joined exactly when its
\* handle was consumed by join (which waited for its result and disarmed the
\* destructor) or dropped; when the scope has exited, every thread spawned
\* in it has been joined exactly once.
C16_JoinedOnce ==
  /\ \A t \in Threads:
       /\ joins[t] <= 1
       /\ joins[t] = 1 <=> handle[t] \in {"forgotten", "dropped"}
       /\ joins[t] = 1 => at[t] = "exited"
  /\ at[Main] = "after" => \A t \in Threads: handle[t] # "none" => joins[t] = 1

\* the scope has exited; one thread was joined explicitly, another one by the
\* destructor of its handle
C16_Witness ==
  /\ at[Main] = "after"
  /\ \E t, u \in Threads:
       /\ handle[t] = "forgotten"
       /\ handle[u] = "dropped"
       /\ joins[t] = 1
       /\ joins[u] = 1

\* --------------------------------------------------- platform primitives
\* the return codes of a platform primitive: 0 is success, 1 stands for every
\* error other than EBUSY
Codes == {0, 1, EBUSY}

\* what a function of core/thread.rs does with the return code rc of a
\* primitive: "abort" is  if p(..) != 0 { abort() },  "assert" is
\* assert(p(..) == 0),  "trylock" is the test of Mutex::trylock, "ignored" is
\* a call whose return code is not looked at
Call(prim, check) == [prim |-> prim, check |-> check]

\* the primitives each function calls, in order
spawn_calls == <<Call("pthread_create", "abort")>>
spawn_detached_calls ==
  <<Call("pthread_attr_init", "abort"),
    Call("pthread_attr_setdetachstate", "ignored"),
    Call("pthread_create", "abort"),
    Call("pthread_attr_destroy", "assert")>>
Thread_join_calls == <<Call("pthread_join", "assert")>>
Thread_drop_calls == <<Call("pthread_join", "assert")>>
deschedule_calls == <<Call("sched_yield", "assert")>>
Mutex_new_calls == <<Call("pthread_mutex_init", "abort")>>
Mutex_new_debug_calls ==
  <<Call("pthread_mutexattr_init", "abort"),
    Call("pthread_mutexattr_settype", "assert"),
    Call("pthread_mutex_init", "abort"),
    Call("pthread_mutexattr_destroy", "assert")>>
Mutex_lock_calls == <<Call("pthread_mutex_lock", "assert")>>
Mutex_trylock_calls == <<Call("pthread_mutex_trylock", "trylock")>>
Mutex_unlock_calls == <<Call("pthread_mutex_unlock", "assert")>>
Mutex_drop_calls == <<Call("pthread_mutex_destroy", "assert")>>
Cond_new_calls == <<Call("pthread_cond_init", "abort")>>
Cond_signal_calls == <<Call("pthread_cond_signal", "assert")>>
Cond_broadcast_calls == <<Call("pthread_cond_broadcast", "assert")>>
Cond_wait_calls == <<Call("pthread_cond_wait", "assert")>>
Cond_drop_calls == <<Call("pthread_cond_destroy", "assert")>>

Functions ==
  {"spawn", "spawn_detached", "Thread::join", "Thread::drop", "deschedule",
   "Mutex::new", "Mutex::new(debug)", "Mutex::lock", "Mutex::trylock", "Mutex::unlock",
   "Mutex::drop", "Cond::new", "Cond::signal", "Cond::broadcast", "Cond::wait",
   "Cond::drop"}

Primitives(f) ==
  CASE f = "spawn" -> spawn_calls
    [] f = "spawn_detached" -> spawn_detached_calls
    [] f = "Thread::join" -> Thread_join_calls
    [] f = "Thread::drop" -> Thread_drop_calls
    [] f = "deschedule" -> deschedule_calls
    [] f = "Mutex::new" -> Mutex_new_calls
    [] f = "Mutex::new(debug)" -> Mutex_new_debug_calls
    [] f = "Mutex::lock" -> Mutex_lock_calls
    [] f = "Mutex::trylock" -> Mutex_trylock_calls
    [] f = "Mutex::unlock" -> Mutex_unlock_calls
    [] f = "Mutex::drop" -> Mutex_drop_calls
    [] f = "Cond::new" -> Cond_new_calls
    [] f = "Cond::signal" -> Cond_signal_calls
    [] f = "Cond::broadcast" -> Cond_broadcast_calls
    [] f = "Cond::wait" -> Cond_wait_calls
    [] f = "Cond::drop" -> Cond_drop_calls
    [] OTHER -> <<>>

\* fail::abort ends the process; fail::assert ends it when its argument is
\* false
fail_abort(failed) == failed
fail_assert(ok) == ~ok

\* the function aborts on return code rc
Fatal(check, rc) ==
  CASE check = "abort" -> fail_abort(rc # 0)
    [] check = "assert" -> fail_assert(rc = 0)
    [] check = "trylock" -> IF rc = EBUSY THEN FALSE ELSE fail_assert(rc = 0)
    [] OTHER -> FALSE

\* a caller enters function f; the functions that create a thread are called
\* until MaxSpawn threads exist
Enter(f) ==
  /\ fn = "none"
  /\ ~aborted
  /\ f \in {"spawn", "spawn_detached"} => created < MaxSpawn
  /\ fn' = f
  /\ step' = 0
  /\ survived' = {}
  /\ UNCHANGED <<cellvars, queue, mutex, not_empty, not_full, pc, arg, ret, ops, waited,
                 poolvars, pushLog, popLog, handle, joins, flag, aborted, created, trylocked>>

\* the function calls its next primitive, which returns rc
Primitive(rc) ==
  /\ fn # "none"
  /\ ~aborted
  /\ step < Len(Primitives(fn))
  /\ LET p == Primitives(fn)[step + 1]
         fatal == Fatal(p.check, rc)
     IN /\ aborted' = fatal
        /\ step' = IF fatal THEN step ELSE step + 1
        /\ survived' = IF rc # 0 /\ ~fatal /\ ~(p.check = "trylock" /\ rc = EBUSY)
                       THEN survived \cup {p.prim} ELSE survived
        /\ created' = IF p.prim = "pthread_create" /\ rc = 0 THEN created + 1 ELSE created
        /\ trylocked' = IF p.check = "trylock" /\ ~fatal
                        THEN (IF rc = EBUSY THEN "false" ELSE "true") ELSE trylocked
  /\ UNCHANGED <<cellvars, queue, mutex, not_empty, not_full, pc, arg, ret, ops, waited,
                 poolvars, pushLog, popLog, handle, joins, flag, fn>>

\* the function returns
Return ==
  /\ fn # "none"
  /\ ~aborted
  /\ step = Len(Primitives(fn))
  /\ fn' = "none"
  /\ UNCHANGED <<cellvars, queue, mutex, not_empty, not_full, pc, arg, ret, ops, waited,
                 poolvars, pushLog, popLog, handle, joins, flag, step, aborted, survived,
                 created, trylocked>>

InitPrimitives == InitCell({"Queue"}, {0}) /\ NoPool

NextPrimitives ==
  \/ \E f \in Functions: Enter(f)
  \/ \E rc \in Codes: Primitive(rc)
  \/ Return

\* PrimitivesSpec: a thread calls the functions of core/thread.rs one after
\* another; every platform primitive may return any code
PrimitivesSpec == InitPrimitives /\ [][NextPrimitives]_vars

\* C17 as stated: no function went on after a primitive returned a code
\* other than success (the busy code of trylock, returned as false, apart),
\* and a thread was created by spawn_detached only after every step of the
\* attribute setup succeeded.
C17_Original_AllFailuresFatal ==
  /\ survived = {}
  /\ (fn = "spawn_detached" /\ step > 2) =>
       survived \cap {"pthread_attr_init", "pthread_attr_setdetachstate"} = {}

\* ------------------------------------------------------- spurious wakeups
\* C18: whatever waits return without a signal, a thread is about to call
\* the container's pop only when the container holds an item, so that the
\* get() of its result never meets None, and a thread is about to push into
\* the container of a bounded queue only when its length is below maximum.
C18_WaitLoops ==
  \A t \in Threads:
    /\ pc[t] # "failed"
    /\ pc[t] \in {"pop_item", "bpop_item"} => generic_len(queue) > 0
    /\ pc[t] = "bpush_item" => generic_len(queue) < maximum

\* no item was ever pushed, so no signal was ever sent: a pop that waited
\* has been woken spuriously and reads the length of the empty queue again
C18_Witness ==
  \E t \in Clients:
    /\ pc[t] \in {"pop_check", "bpop_check"}
    /\ t \in waited
    /\ mutex = t
    /\ queue = <<>>
    /\ pushLog = <<>>
    /\ \A u \in Clients: ~PushPending(u)

\* --------------------------- several producers and consumers, bounded queue
\* the threads that push and the threads that pop
Pushers == Clients
Poppers == Threads \ Clients

\* the calls of push and of pop made so far
PushCalls == Calls
PopCalls == Len(popLog) + Cardinality({t \in Poppers: PopPending(t)})

InitMany ==
  /\ InitCell({f \in Facades: IsBounded(f)}, 1..MaxCap)
  /\ at = [t \in Threads |-> IF t \in Pushers THEN "producer" ELSE "consumer"]
  /\ n_threads = 0
  /\ i = 0
  /\ pool = <<>>
  /\ submitted = 0
  /\ joined = {}
  /\ log = <<>>

\* a producer calls push
ManyPush(t, item) ==
  /\ PushCalls < MaxBatch
  /\ push(t, item)
  /\ ops' = [ops EXCEPT ![t] = @ + 1]
  /\ UNCHANGED <<threadvars, cellvars, queue, mutex, not_empty, not_full, ret, poolvars,
                 pushLog, popLog>>

\* a consumer calls pop
ManyPop(t) ==
  /\ PopCalls < MaxBatch
  /\ pop(t)
  /\ ops' = [ops EXCEPT ![t] = @ + 1]
  /\ UNCHANGED <<threadvars, cellvars, queue, mutex, not_empty, not_full, ret, poolvars,
                 pushLog, popLog>>

NextMany ==
  \/ \E t \in Pushers, item \in Items: ManyPush(t, item)
  \/ \E t \in Poppers: ManyPop(t)
  \/ \E t \in Threads: BoundedQueueStep(t)
  \/ \E t \in Threads: SpuriousWakeup(t)

\* the scheduler runs every thread that can take a step, and a thread that
\* asks for the mutex gets it when it is free again and again; no thread has
\* to call the queue again, no wait has to return without a signal
ManyFairness == \A t \in Threads: SF_vars(BoundedQueueStep(t))

\* FairManySpec: a bounded queue, the producers push up to MaxBatch items in
\* all, the consumers pop up to MaxBatch times in all
FairManySpec == InitMany /\ [][NextMany]_vars /\ ManyFairness

\* every thread is outside the queue or blocked in a wait
Quiescent == \A t \in Threads: pc[t] \in {"idle", "bpush_wait", "bpop_wait"}

\* C19: when no thread is left to send a signal, no producer waits on not_full
\* unless the queue is full and no consumer waits on not_empty unless the
\* queue is empty; and in a run in which as many pushes as pops are called,
\* every push and every pop returns.
C19_EveryCallCompletes ==
  /\ [](Quiescent =>
          /\ not_full # {} => generic_len(queue) = maximum
          /\ not_empty # {} => generic_len(queue) = 0)
  /\ <>[](PushCalls = PopCalls) => <>[](\A t \in Threads: pc[t] = "idle")

\* two producers were blocked on the full queue at the same time, two
\* consumers have popped, and every call has returned
C19_Witness ==
  /\ \A t \in Threads: pc[t] = "idle"
  /\ PushCalls = MaxBatch
  /\ PopCalls = MaxBatch
  /\ \E a, b \in DOMAIN popLog: popLog[a][1] # popLog[b][1]
  /\ \E t, u \in Pushers: t # u /\ ops[t] >= 1 /\ ops[u] >= 1
  /\ maximum = 1

\* ------------------------------------------------------------ capacity 0
\* BoundedQueuePtr::new takes any maximum, 0 included
InitAnyCapacity == InitCell({f \in Facades: IsBounded(f)}, 0..MaxCap) /\ NoPool

NextBounded ==
  \/ \E t \in Clients, item \in Items: ClientPush(t, item)
  \/ \E t \in Clients: ClientPop(t)
  \/ \E t \in Clients: BoundedQueueStep(t)
  \/ \E t \in Clients: SpuriousWakeup(t)

\* AnyCapacitySpec: a bounded queue made with a maximum of 0..MaxCap, shared
\* by NClients threads that push and pop
AnyCapacitySpec == InitAnyCapacity /\ [][NextBounded]_vars

\* C20: on a bounded queue made with maximum 0 no push stores an item, no
\* pop removes one, and no call of push or pop returns: a thread that has
\* called the queue stays before the wait loop, in it, or blocked in its wait.
C20_ZeroCapacityBlocks ==
  maximum = 0 =>
    /\ pushLog = <<>>
    /\ popLog = <<>>
    /\ queue = <<>>
    /\ \A t \in Clients:
         /\ ops[t] <= 1
         /\ ops[t] = 1 => pc[t] \in {"bpush_lock", "bpush_check", "bpush_wait", "bpush_reacq",
                                       "bpop_lock", "bpop_check", "bpop_wait", "bpop_reacq"}

\* the queue was made with maximum 0; a push and a pop have both waited, the
\* push was woken and reads the length again
C20_Witness ==
  /\ maximum = 0
  /\ \E t, u \in Clients:
       /\ pc[t] = "bpush_check"
       /\ t \in waited
       /\ pc[u] = "bpop_wait"
       /\ u \in not_empty

\* ------------------------------------------- the mutex while a task runs
\* C21: a worker that runs a task, or to which pop has returned, is outside
\* the queue and does not own the mutex; a worker owns the mutex only inside
\* pop, between lock and the drop of the guard; so whenever the owner of the
\* pool is kept waiting for the mutex in a push, the owner of the mutex is a
\* worker inside pop, never one that runs a task.
C21_NoMutexWhileRunning ==
  /\ \A w \in Workers:
       /\ at[w] = "run" => (mutex # w /\ pc[w] = "idle")
       /\ (at[w] = "popping" /\ pc[w] = "idle") => mutex # w
       /\ mutex = w => (at[w] = "popping" /\ InCritical(w))
  /\ (pc[Main] = "push_lock" /\ mutex # NoThread) =>
       (mutex \in Workers /\ at[mutex] = "popping" /\ InCritical(mutex))

\* two workers run a task each at the same time while the drop of the pool
\* owns the mutex and is about to store a sentinel
C21_Witness ==
  /\ \E w, u \in Workers: w # u /\ at[w] = "run" /\ at[u] = "run" /\ ret[w] # ret[u]
  /\ mutex = Main
  /\ pc[Main] = "push_item"
  /\ arg[Main] = None

====
